---- MODULE Spec2Model ----
(***************************************************************************)
(* Model of plain_to_v2_converter.py: the conversion of a .plain.pk        *)
(* archive into a .v2.pk archive (convert_plain_to_v2), the path           *)
(* classification done inside its write loop, and the partial encryption   *)
(* encrypt_first_512_bytes.                                                *)
(*                                                                         *)
(* Strings are sequences of one-character strings, byte buffers are        *)
(* sequences of integers in 0..255.                                        *)
(***************************************************************************)
EXTENDS Integers, Sequences, FiniteSets, TLC

VARIABLES
    \* convert_plain_to_v2
    pc,               \* position in convert_plain_to_v2
    input_exists,     \* input_path.exists()
    input_name_ok,    \* input_path.name.endswith('.plain.pk')
    src,              \* entries of the source archive, in archive order
    output_arg,       \* the output_path argument: "None", "given"; "unset" before use
    dest_file,        \* file at the destination path: "absent", "old", "new"
    zip_in_open,      \* the source archive handle is open
    zip_out_open,     \* the destination archive handle is open
    file_list,        \* zip_in.namelist()
    uuid_hex,         \* story_uuid.hex.upper()
    idx,              \* number of entries of file_list the loop has taken
    dst,              \* entries written to the destination archive
    files_processed,  \* the counter of the write loop
    read_log,         \* indices of the entries read by zip_in.read in the loop
    error,            \* the exception that left convert_plain_to_v2, or "none"
    failed_at,        \* index of the entry whose handling raised, or 0
    result,           \* the returned output path; <<>> while nothing is returned
    \* encrypt_first_512_bytes alone
    enc_pc, enc_data, enc_result,
    \* the classification of one path alone
    cls_pc, cls_name, cls_branch, cls_new_name

vars == <<pc, input_exists, input_name_ok, src, output_arg, dest_file,
          zip_in_open, zip_out_open, file_list, uuid_hex, idx, dst,
          files_processed, read_log, error, failed_at, result,
          enc_pc, enc_data, enc_result,
          cls_pc, cls_name, cls_branch, cls_new_name>>

convVars == <<pc, input_exists, input_name_ok, src, output_arg, dest_file,
              zip_in_open, zip_out_open, file_list, uuid_hex, idx, dst,
              files_processed, read_log, error, failed_at, result>>
encVars == <<enc_pc, enc_data, enc_result>>
clsVars == <<cls_pc, cls_name, cls_branch, cls_new_name>>

(***************************************************************************)
(* Python str and bytes operations used by the converter.                  *)
(***************************************************************************)
Chars(s) == [i \in 1..Len(s) |-> SubSeq(s, i, i)]

Min(a, b) == IF a < b THEN a ELSE b

\* s.startswith(p)
StartsWith(s, p) == Len(p) <= Len(s) /\ SubSeq(s, 1, Len(p)) = p

\* s.endswith(p)
EndsWith(s, p) ==
    Len(p) <= Len(s) /\ SubSeq(s, Len(s) - Len(p) + 1, Len(s)) = p

\* p in s
RECURSIVE Contains(_, _)
Contains(s, p) ==
    IF Len(s) < Len(p) THEN FALSE
    ELSE IF SubSeq(s, 1, Len(p)) = p THEN TRUE
    ELSE Contains(Tail(s), p)

\* s.replace(old, new): every non-overlapping occurrence, left to right
RECURSIVE Replace(_, _, _)
Replace(s, old, new) ==
    IF Len(s) < Len(old) THEN s
    ELSE IF SubSeq(s, 1, Len(old)) = old
         THEN new \o Replace(SubSeq(s, Len(old) + 1, Len(s)), old, new)
         ELSE <<Head(s)>> \o Replace(Tail(s), old, new)

\* s[:-k]
DropLast(s, k) == SubSeq(s, 1, Len(s) - k)

\* s.upper() on the characters a hex rendering can hold
UpperChar(c) ==
    CASE c = "a" -> "A" [] c = "b" -> "B" [] c = "c" -> "C"
      [] c = "d" -> "D" [] c = "e" -> "E" [] c = "f" -> "F"
      [] OTHER -> c

Upper(s) == [i \in 1..Len(s) |-> UpperChar(s[i])]

(***************************************************************************)
(* Key material (lines 20-31).  A 32-bit word is a pair <<hi, lo>> of its  *)
(* two 16-bit halves, so that no intermediate value leaves the range of    *)
(* the model checker's integers; all word arithmetic is modulo 2^32.       *)
(***************************************************************************)
Half == 65536

\* [0x91BD7A0A, 0xA75440A9, 0xBBD49D6C, 0xE0DCC0E3]
raw_key_generic ==
    << <<37309, 31242>>, <<42836, 16553>>, <<48084, 40300>>, <<57564, 49379>> >>

\* k.to_bytes(4, 'little')
WordToBytes(w) == <<w[2] % 256, w[2] \div 256, w[1] % 256, w[1] \div 256>>

\* the inverse reading the cipher makes of four bytes
BytesToWord(b, k) == <<b[k + 2] + 256 * b[k + 3], b[k] + 256 * b[k + 1]>>

\* b''.join of the words' bytes
JoinBytes(ws) ==
    [i \in 1..(4 * Len(ws)) |-> WordToBytes(ws[((i - 1) \div 4) + 1])[((i - 1) % 4) + 1]]

vectkey_to_bytes(key_vect) == JoinBytes(key_vect)

lunii_generic_key == vectkey_to_bytes(raw_key_generic)

\* int(1 + 52 / (len(buffer) / 4)) for a non-empty buffer: the quotient
\* 52 / (len / 4) is 208 / len, and int() truncates it
lunii_tea_rounds(buffer) == 1 + ((52 * 4) \div Len(buffer))

(***************************************************************************)
(* xxtea.encrypt(data, key, padding=False, rounds=r): the XXTEA block      *)
(* cipher of the xxtea package over little-endian 32-bit words.  The       *)
(* package is not part of the repository; this is its algorithm.           *)
(***************************************************************************)
RECURSIVE XorBits(_, _, _)
XorBits(a, b, bits) ==
    IF bits = 0 THEN 0
    ELSE ((a + b) % 2) + 2 * XorBits(a \div 2, b \div 2, bits - 1)

\* a ^ b for 4-bit a and b, as a table
XorNibble == [a \in 0..15 |-> [b \in 0..15 |-> XorBits(a, b, 4)]]

\* a ^ b for 16-bit a and b, nibble by nibble
Xor16(a, b) ==
    XorNibble[a % 16][b % 16]
    + 16 * XorNibble[(a \div 16) % 16][(b \div 16) % 16]
    + 256 * XorNibble[(a \div 256) % 16][(b \div 256) % 16]
    + 4096 * XorNibble[a \div 4096][b \div 4096]

Xor32(a, b) == <<Xor16(a[1], b[1]), Xor16(a[2], b[2])>>

Add32(a, b) ==
    LET lo == a[2] + b[2]
    IN  <<(a[1] + b[1] + (lo \div Half)) % Half, lo % Half>>

Pow2(k) == 2 ^ k

\* w >> k and w << k for 0 < k < 16
Shr32(w, k) ==
    <<w[1] \div Pow2(k), (w[2] \div Pow2(k)) + (w[1] % Pow2(k)) * Pow2(16 - k)>>

Shl32(w, k) ==
    <<((w[1] * Pow2(k)) % Half) + (w[2] \div Pow2(16 - k)), (w[2] * Pow2(k)) % Half>>

\* 0x9E3779B9
DELTA == <<40503, 31161>>

\* ((z>>5 ^ y<<2) + (y>>3 ^ z<<4)) ^ ((sum ^ y) + (key[(p&3)^e] ^ z))
MX(y, z, sum, kw, p, e) ==
    Xor32(Add32(Xor32(Shr32(z, 5), Shl32(y, 2)),
                Xor32(Shr32(y, 3), Shl32(z, 4))),
          Add32(Xor32(sum, y),
                Xor32(kw[XorNibble[p % 4][e] + 1], z)))

\* v[p] += MX for one 0-based p: y is the next word (cyclically) and z the
\* previous one, which the loop has just updated (for p = 0, the last word)
TeaStep(v, p, sum, kw, e) ==
    LET n == Len(v)
        y == v[((p + 1) % n) + 1]
        z == v[((p + n - 1) % n) + 1]
    IN  [v EXCEPT ![p + 1] = Add32(v[p + 1], MX(y, z, sum, kw, p, e))]

\* the steps p = lo, lo + 1, ..., hi in that order, for 0 <= lo <= hi < n
\* (the range is halved rather than walked, and v is looked at before the
\* steps are taken, which keeps the evaluation shallow)
RECURSIVE TeaPass(_, _, _, _, _, _)
TeaPass(v, lo, hi, sum, kw, e) ==
    IF hi >= Len(v) THEN v
    ELSE IF lo = hi THEN TeaStep(v, lo, sum, kw, e)
    ELSE LET mid == (lo + hi) \div 2
         IN  TeaPass(TeaPass(v, lo, mid, sum, kw, e), mid + 1, hi, sum, kw, e)

\* if (n > 1) do { sum += DELTA; e = (sum >> 2) & 3; one pass } while (--rounds)
RECURSIVE TeaRounds(_, _, _, _)
TeaRounds(v, sum, kw, rounds) ==
    IF Len(v) < 2 \/ rounds = 0 THEN v
    ELSE LET s2 == Add32(sum, DELTA)
             e == (s2[2] \div 4) % 4
         IN  TeaRounds(TeaPass(v, 0, Len(v) - 1, s2, kw, e), s2, kw, rounds - 1)

Words(b) == [k \in 1..(Len(b) \div 4) |-> BytesToWord(b, 4 * (k - 1) + 1)]

\* The package rejects, with padding=False, data whose length is not a
\* multiple of 4 or is under 8 bytes (a block is at least two words).
XxteaAccepts(data) == Len(data) % 4 = 0 /\ Len(data) >= 8

XxteaEncrypt(data, key, rounds) ==
    JoinBytes(TeaRounds(Words(data), <<0, 0>>, Words(key), rounds))

(***************************************************************************)
(* Faulty variants of encrypt_first_512_bytes, used to test the properties *)
(* below: without the cap of 512 on the encrypted prefix; returning the    *)
(* encrypted prefix without the remainder; padding the prefix with zero    *)
(* bytes to a whole number of words instead of letting the cipher raise.   *)
(***************************************************************************)
encrypt_first_512_bytes_NoCap(data, key) ==
    IF Len(data) = 0
    THEN [status |-> "ok", bytes |-> data, cipher_calls |-> <<>>]
    ELSE LET rounds == lunii_tea_rounds(data)
         IN  IF XxteaAccepts(data)
             THEN [status |-> "ok",
                   bytes |-> XxteaEncrypt(data, key, rounds),
                   cipher_calls |-> <<data>>]
             ELSE [status |-> "ValueError", bytes |-> <<>>,
                   cipher_calls |-> <<data>>]

encrypt_first_512_bytes_NoRemainder(data, key) ==
    IF Len(data) = 0
    THEN [status |-> "ok", bytes |-> data, cipher_calls |-> <<>>]
    ELSE LET encrypt_len == Min(512, Len(data))
             to_encrypt == SubSeq(data, 1, encrypt_len)
             rounds == lunii_tea_rounds(to_encrypt)
         IN  IF XxteaAccepts(to_encrypt)
             THEN [status |-> "ok",
                   bytes |-> XxteaEncrypt(to_encrypt, key, rounds),
                   cipher_calls |-> <<to_encrypt>>]
             ELSE [status |-> "ValueError", bytes |-> <<>>,
                   cipher_calls |-> <<to_encrypt>>]

encrypt_first_512_bytes_Padded(data, key) ==
    IF Len(data) = 0
    THEN [status |-> "ok", bytes |-> data, cipher_calls |-> <<>>]
    ELSE LET encrypt_len == Min(512, Len(data))
             head == SubSeq(data, 1, encrypt_len)
             to_encrypt == head \o [i \in 1..((4 - (encrypt_len % 4)) % 4) |-> 0]
             remainder == SubSeq(data, encrypt_len + 1, Len(data))
             rounds == lunii_tea_rounds(to_encrypt)
         IN  IF XxteaAccepts(to_encrypt)
             THEN [status |-> "ok",
                   bytes |-> XxteaEncrypt(to_encrypt, key, rounds) \o remainder,
                   cipher_calls |-> <<to_encrypt>>]
             ELSE [status |-> "ValueError", bytes |-> <<>>,
                   cipher_calls |-> <<to_encrypt>>]

(***************************************************************************)
(* encrypt_first_512_bytes(data, key), lines 34-53.  The result records    *)
(* how the call ended ("ok": it returned bytes; "ValueError": the cipher   *)
(* raised), the bytes returned, and every buffer handed to the cipher.     *)
(***************************************************************************)
encrypt_first_512_bytes(data, key) ==
    IF Len(data) = 0
    THEN [status |-> "ok", bytes |-> data, cipher_calls |-> <<>>]
    ELSE LET encrypt_len == Min(512, Len(data))
             to_encrypt == SubSeq(data, 1, encrypt_len)
             remainder == SubSeq(data, encrypt_len + 1, Len(data))
             rounds == lunii_tea_rounds(to_encrypt)
         IN  IF XxteaAccepts(to_encrypt)
             THEN [status |-> "ok",
                   bytes |-> XxteaEncrypt(to_encrypt, key, rounds) \o remainder,
                   cipher_calls |-> <<to_encrypt>>]
             ELSE [status |-> "ValueError", bytes |-> <<>>,
                   cipher_calls |-> <<to_encrypt>>]

(***************************************************************************)
(* The entry classification of the write loop, lines 103-144: which branch *)
(* of the if-chain takes a file name, and the name it is written under.    *)
(***************************************************************************)
\* line 105: the metadata files, skipped without being read
SkippedNames ==
    {Chars("uuid.bin"), Chars("_metadata.json"), Chars("_thumbnail.png")}

\* line 123
IsRf(file_name) ==
    \/ StartsWith(file_name, Chars("rf/"))
    \/ StartsWith(file_name, Chars("rf\\"))
    \/ Contains(file_name, Chars("/rf/"))
    \/ Contains(file_name, Chars("\\rf\\"))

\* line 132
IsSf(file_name) ==
    \/ StartsWith(file_name, Chars("sf/"))
    \/ StartsWith(file_name, Chars("sf\\"))
    \/ Contains(file_name, Chars("/sf/"))
    \/ Contains(file_name, Chars("\\sf\\"))

\* the if-chain of lines 105-144, first test that holds
Branch(file_name) ==
    IF file_name \in SkippedNames THEN "skip"
    ELSE IF file_name = Chars("ni") \/ file_name = Chars("nm") THEN "index"
    ELSE IF EndsWith(file_name, Chars(".plain")) THEN "plain"
    ELSE IF IsRf(file_name) THEN "rf"
    ELSE IF IsSf(file_name) THEN "sf"
    ELSE "unknown"

\* line 119
PlainBaseName(file_name) == Replace(file_name, Chars(".plain"), <<>>)

\* faulty variant: the separators are not normalised
RfBaseName_NoNormalize(file_name) ==
    IF EndsWith(file_name, Chars(".bmp")) THEN DropLast(file_name, 4)
    ELSE file_name

\* lines 126-128
RfBaseName(file_name) ==
    LET base_name == Replace(file_name, Chars("\\"), Chars("/"))
    IN  IF EndsWith(base_name, Chars(".bmp")) THEN DropLast(base_name, 4)
        ELSE base_name

\* lines 135-137
SfBaseName(file_name) ==
    LET base_name == Replace(file_name, Chars("\\"), Chars("/"))
    IN  IF EndsWith(base_name, Chars(".mp3")) THEN DropLast(base_name, 4)
        ELSE base_name

\* lines 114, 120, 129, 138: f"{uuid_hex}/{...}" in the branch taken
NewName(hex, file_name) ==
    LET b == Branch(file_name)
    IN  hex \o Chars("/") \o
        (CASE b = "index" -> file_name
           [] b = "plain" -> PlainBaseName(file_name)
           [] b = "rf" -> RfBaseName(file_name)
           [] b = "sf" -> SfBaseName(file_name)
           [] OTHER -> <<>>)

(***************************************************************************)
(* UUID(bytes=uuid_bytes).hex.upper(), lines 86-87.  UUID() raises         *)
(* ValueError unless it is given 16 bytes; .hex is the 32 lowercase hex    *)
(* digits of the big-endian integer, two per byte.                         *)
(***************************************************************************)
HexDigits == Chars("0123456789abcdef")

RECURSIVE Hex(_)
Hex(bytes) ==
    IF bytes = <<>> THEN <<>>
    ELSE <<HexDigits[(Head(bytes) \div 16) + 1], HexDigits[(Head(bytes) % 16) + 1]>>
         \o Hex(Tail(bytes))

\* faulty variant: .upper() is left out
UuidHex_NoUpper(uuid_bytes) == Hex(uuid_bytes)

UuidAccepts(uuid_bytes) == Len(uuid_bytes) = 16

UuidHex(uuid_bytes) == Upper(Hex(uuid_bytes))

(***************************************************************************)
(* Inputs.                                                                 *)
(***************************************************************************)
\* byte buffers of a given length
Buf(n, seed) == [i \in 1..n |-> (89 * seed + 7 * i) % 256]

\* an identifier whose hex digits include every letter a-f
SampleUuid ==
    <<0, 1, 35, 69, 103, 137, 171, 205, 239, 254, 220, 186, 152, 118, 84, 255>>

MaxShortLen == 13
Margin == 5
MaxSeed == 2

EncLengths ==
    (0..MaxShortLen) \cup ((512 - Margin)..(512 + Margin)) \cup {600}

EncBuffers == {Buf(n, seed) : n \in EncLengths, seed \in 0..MaxSeed}

\* file names: the documented vocabulary, and every concatenation of up to
\* MaxTokens path tokens
MaxTokens == 4

FixedNames ==
    { Chars("uuid.bin"), Chars("_metadata.json"), Chars("_thumbnail.png"),
      Chars("ni"), Chars("nm"), Chars("li.plain"), Chars("ri.plain"),
      Chars("si.plain"), Chars("si"), Chars("readme.txt"),
      Chars("a.plain.b.plain"), Chars("rf/000/A1B2C3D4.bmp"),
      Chars("story\\rf\\000\\A1B2C3D4.bmp"),
      Chars("sf\\000\\A1B2C3D4.mp3") }

Tokens ==
    { Chars("rf"), Chars("sf"), Chars("/"), Chars("\\"), Chars("a"),
      Chars(".bmp"), Chars(".mp3"), Chars(".plain") }

RECURSIVE Flatten(_)
Flatten(ss) == IF ss = <<>> THEN <<>> ELSE Head(ss) \o Flatten(Tail(ss))

TokenNames ==
    UNION { {Flatten(f) : f \in [1..k -> Tokens]} : k \in 1..MaxTokens }

ClsNames == FixedNames \cup TokenNames

(***************************************************************************)
(* encrypt_first_512_bytes applied to one buffer.                          *)
(***************************************************************************)
ConvIdle ==
    /\ pc = "idle" /\ input_exists = FALSE /\ input_name_ok = FALSE
    /\ src = <<>> /\ output_arg = "unset" /\ dest_file = "absent"
    /\ zip_in_open = FALSE /\ zip_out_open = FALSE /\ file_list = <<>>
    /\ uuid_hex = <<>> /\ idx = 0 /\ dst = <<>> /\ files_processed = 0
    /\ read_log = <<>> /\ error = "none" /\ failed_at = 0 /\ result = <<>>

EncIdle ==
    /\ enc_pc = "idle" /\ enc_data = <<>>
    /\ enc_result = [status |-> "none", bytes |-> <<>>, cipher_calls |-> <<>>]

ClsIdle ==
    /\ cls_pc = "idle" /\ cls_name = <<>> /\ cls_branch = "none"
    /\ cls_new_name = <<>>

EncInit ==
    /\ enc_pc = "call"
    /\ enc_data \in EncBuffers
    /\ enc_result = [status |-> "none", bytes |-> <<>>, cipher_calls |-> <<>>]
    /\ ConvIdle /\ ClsIdle

EncCall ==
    /\ enc_pc = "call"
    /\ enc_result' = encrypt_first_512_bytes(enc_data, lunii_generic_key)
    /\ enc_pc' = IF enc_result'.status = "ok" THEN "returned" ELSE "raised"
    /\ UNCHANGED <<enc_data, convVars, clsVars>>

EncNext == EncCall

SpecEnc == EncInit /\ [][EncNext]_vars

(***************************************************************************)
(* The classification applied to one file name.                            *)
(***************************************************************************)
ClsInit ==
    /\ cls_pc = "start"
    /\ cls_name \in ClsNames
    /\ cls_branch = "none"
    /\ cls_new_name = <<>>
    /\ ConvIdle /\ EncIdle

Classify ==
    /\ cls_pc = "start"
    /\ cls_branch' = Branch(cls_name)
    /\ cls_new_name' =
         IF cls_branch' \in {"skip", "unknown"} THEN <<>>
         ELSE NewName(UuidHex(SampleUuid), cls_name)
    /\ cls_pc' = "classified"
    /\ UNCHANGED <<cls_name, convVars, encVars>>

ClsNext == Classify

SpecCls == ClsInit /\ [][ClsNext]_vars

(***************************************************************************)
(* convert_plain_to_v2(input_path, output_path), lines 56-159.             *)
(***************************************************************************)
MaxEntries == 3

\* the entries a source archive is made of
SourceEntries ==
    { [name |-> Chars("uuid.bin"), data |-> u] :
        u \in {SampleUuid, Buf(15, 0)} }
    \cup { [name |-> n, data |-> <<>>] :
             n \in {Chars("_metadata.json"), Chars("_thumbnail.png"),
                    Chars("readme.txt")} }
    \cup { [name |-> Chars("ni"), data |-> Buf(6, 1)],
           [name |-> Chars("si.plain"), data |-> Buf(6, 1)],
           [name |-> Chars("si.plain"), data |-> Buf(8, 2)],
           [name |-> Chars("rf/0/a.bmp"), data |-> Buf(8, 2)],
           [name |-> Chars("rf\\0\\a.bmp"), data |-> <<>>],
           [name |-> Chars("sf\\0\\b.mp3"), data |-> Buf(8, 1)] }

Archives == UNION { [1..k -> SourceEntries] : k \in 0..MaxEntries }

\* zip_in.namelist(): every entry's name, in archive order
NameList(entries) == [i \in 1..Len(entries) |-> entries[i].name]

\* zip_in.read(name): the bytes of the last entry of that name
ZipRead(entries, name) ==
    LET last == CHOOSE i \in 1..Len(entries) :
                    /\ entries[i].name = name
                    /\ \A j \in (i + 1)..Len(entries) : entries[j].name # name
    IN  entries[last].data

\* encrypt_first_512_bytes on each buffer a source entry can hold, computed
\* once (the function is pure)
EncryptedEntryData ==
    [d \in {e.data : e \in SourceEntries} |->
        encrypt_first_512_bytes(d, lunii_generic_key)]

\* lines 115, 121, 130, 139: the bytes written in the branch taken
OutputData(file_name, data) ==
    IF Branch(file_name) = "index"
    THEN [status |-> "ok", bytes |-> data, cipher_calls |-> <<>>]
    ELSE IF data \in DOMAIN EncryptedEntryData THEN EncryptedEntryData[data]
    ELSE encrypt_first_512_bytes(data, lunii_generic_key)

\* The archive content is looked at only once both checks of the input path
\* have passed.
Init ==
    /\ pc = "start"
    /\ input_exists \in BOOLEAN
    /\ input_name_ok \in BOOLEAN
    /\ src \in (IF input_exists /\ input_name_ok THEN Archives ELSE {<<>>})
    /\ dest_file \in {"absent", "old"}
    /\ output_arg = "unset"
    /\ zip_in_open = FALSE /\ zip_out_open = FALSE /\ file_list = <<>>
    /\ uuid_hex = <<>> /\ idx = 0 /\ dst = <<>> /\ files_processed = 0
    /\ read_log = <<>> /\ error = "none" /\ failed_at = 0 /\ result = <<>>
    /\ EncIdle /\ ClsIdle

\* An exception leaves convert_plain_to_v2: both with-blocks (lines 78, 100)
\* close whatever they hold, and nothing is returned.
Raise(kind, at) ==
    /\ error' = kind
    /\ failed_at' = at
    /\ pc' = "failed"
    /\ zip_in_open' = FALSE
    /\ zip_out_open' = FALSE

\* lines 69-70
CheckExists ==
    /\ pc = "start"
    /\ \/ /\ ~input_exists
          /\ Raise("FileNotFoundError", 0)
       \/ /\ input_exists
          /\ pc' = "check_name"
          /\ UNCHANGED <<error, failed_at, zip_in_open, zip_out_open>>
    /\ UNCHANGED <<input_exists, input_name_ok, src, output_arg, dest_file,
                   file_list, uuid_hex, idx, dst, files_processed, read_log,
                   result, encVars, clsVars>>

\* lines 72-73
CheckName ==
    /\ pc = "check_name"
    /\ \/ /\ ~input_name_ok
          /\ Raise("ValueError: not a .plain.pk file", 0)
       \/ /\ input_name_ok
          /\ pc' = "open_in"
          /\ UNCHANGED <<error, failed_at, zip_in_open, zip_out_open>>
    /\ UNCHANGED <<input_exists, input_name_ok, src, output_arg, dest_file,
                   file_list, uuid_hex, idx, dst, files_processed, read_log,
                   result, encVars, clsVars>>

\* faulty variant: the destination archive is created together with the
\* opening of the source archive, before uuid.bin is looked for
OpenInput_CreatesOutput ==
    /\ pc = "open_in"
    /\ \/ /\ Raise("IOError: open input", 0)
          /\ UNCHANGED <<file_list, dest_file>>
       \/ /\ zip_in_open' = TRUE
          /\ file_list' = NameList(src)
          /\ dest_file' = "new"
          /\ pc' = "check_uuid"
          /\ UNCHANGED <<error, failed_at, zip_out_open>>
    /\ UNCHANGED <<input_exists, input_name_ok, src, output_arg,
                   uuid_hex, idx, dst, files_processed, read_log,
                   result, encVars, clsVars>>

\* lines 78-79; opening the archive may fail (not a zip file, unreadable)
OpenInput ==
    /\ pc = "open_in"
    /\ \/ /\ Raise("IOError: open input", 0)
          /\ UNCHANGED file_list
       \/ /\ zip_in_open' = TRUE
          /\ file_list' = NameList(src)
          /\ pc' = "check_uuid"
          /\ UNCHANGED <<error, failed_at, zip_out_open>>
    /\ UNCHANGED <<input_exists, input_name_ok, src, output_arg, dest_file,
                   uuid_hex, idx, dst, files_processed, read_log,
                   result, encVars, clsVars>>

\* lines 82-83
CheckUuid ==
    /\ pc = "check_uuid"
    /\ \/ /\ \A i \in 1..Len(file_list) : file_list[i] # Chars("uuid.bin")
          /\ Raise("ValueError: no uuid.bin", 0)
       \/ /\ \E i \in 1..Len(file_list) : file_list[i] = Chars("uuid.bin")
          /\ pc' = "read_uuid"
          /\ UNCHANGED <<error, failed_at, zip_in_open, zip_out_open>>
    /\ UNCHANGED <<input_exists, input_name_ok, src, output_arg, dest_file,
                   file_list, uuid_hex, idx, dst, files_processed, read_log,
                   result, encVars, clsVars>>

\* lines 85-87; the read may fail, and UUID() raises unless given 16 bytes
ReadUuid ==
    /\ pc = "read_uuid"
    /\ LET uuid_bytes == ZipRead(src, Chars("uuid.bin"))
       IN  \/ /\ Raise("IOError: read", 0)
              /\ UNCHANGED uuid_hex
           \/ /\ ~UuidAccepts(uuid_bytes)
              /\ Raise("ValueError: uuid", 0)
              /\ UNCHANGED uuid_hex
           \/ /\ UuidAccepts(uuid_bytes)
              /\ uuid_hex' = UuidHex(uuid_bytes)
              /\ pc' = "create_out"
              /\ UNCHANGED <<error, failed_at, zip_in_open, zip_out_open>>
    /\ UNCHANGED <<input_exists, input_name_ok, src, output_arg, dest_file,
                   file_list, idx, dst, files_processed, read_log,
                   result, encVars, clsVars>>

\* lines 92-101: the output path is settled and the destination archive is
\* opened with mode 'w', which truncates the file there; opening may fail
CreateOutput ==
    /\ pc = "create_out"
    /\ \E arg \in {"None", "given"} : output_arg' = arg
    /\ \/ /\ Raise("IOError: open output", 0)
          /\ UNCHANGED <<dest_file, files_processed>>
       \/ /\ dest_file' = "new"
          /\ zip_out_open' = TRUE
          /\ files_processed' = 0
          /\ pc' = "loop"
          /\ UNCHANGED <<error, failed_at, zip_in_open>>
    /\ UNCHANGED <<input_exists, input_name_ok, src, file_list, uuid_hex,
                   idx, dst, read_log, result, encVars, clsVars>>

\* the loop of line 103 has an entry left to take
InLoop == pc = "loop" /\ idx < Len(file_list)

\* what no iteration of the loop changes
LoopFrame ==
    UNCHANGED <<input_exists, input_name_ok, src, output_arg, dest_file,
                file_list, uuid_hex, result, encVars, clsVars>>

\* lines 105-106
SkipMetadata ==
    /\ InLoop
    /\ LoopFrame
    /\ Branch(file_list[idx + 1]) = "skip"
    /\ idx' = idx + 1
    /\ UNCHANGED <<pc, error, failed_at, zip_in_open, zip_out_open, dst,
                   files_processed, read_log>>

\* line 109 raises
ReadFails ==
    /\ InLoop
    /\ LoopFrame
    /\ Branch(file_list[idx + 1]) # "skip"
    /\ Raise("IOError: read", idx + 1)
    /\ UNCHANGED <<idx, dst, files_processed, read_log>>

\* faulty variant: the unknown file is counted as processed
SkipUnknown_Counted ==
    /\ InLoop
    /\ LoopFrame
    /\ Branch(file_list[idx + 1]) = "unknown"
    /\ read_log' = Append(read_log, idx + 1)
    /\ files_processed' = files_processed + 1
    /\ idx' = idx + 1
    /\ UNCHANGED <<pc, error, failed_at, zip_in_open, zip_out_open, dst>>

\* lines 109, 141-144
SkipUnknown ==
    /\ InLoop
    /\ LoopFrame
    /\ Branch(file_list[idx + 1]) = "unknown"
    /\ read_log' = Append(read_log, idx + 1)
    /\ idx' = idx + 1
    /\ UNCHANGED <<pc, error, failed_at, zip_in_open, zip_out_open, dst,
                   files_processed>>

\* faulty variant: the cipher's exception is swallowed and the entry skipped
CipherFails_Skipped ==
    /\ InLoop
    /\ LoopFrame
    /\ Branch(file_list[idx + 1]) \notin {"skip", "unknown"}
    /\ OutputData(file_list[idx + 1], ZipRead(src, file_list[idx + 1])).status # "ok"
    /\ read_log' = Append(read_log, idx + 1)
    /\ idx' = idx + 1
    /\ UNCHANGED <<pc, error, failed_at, zip_in_open, zip_out_open, dst,
                   files_processed>>

\* lines 109, 121 / 130 / 139: the cipher raises
CipherFails ==
    /\ InLoop
    /\ LoopFrame
    /\ Branch(file_list[idx + 1]) \notin {"skip", "unknown"}
    /\ OutputData(file_list[idx + 1], ZipRead(src, file_list[idx + 1])).status # "ok"
    /\ read_log' = Append(read_log, idx + 1)
    /\ Raise("ValueError: cipher", idx + 1)
    /\ UNCHANGED <<idx, dst, files_processed>>

\* lines 109-139, then line 147 raises
WriteFails ==
    /\ InLoop
    /\ LoopFrame
    /\ Branch(file_list[idx + 1]) \notin {"skip", "unknown"}
    /\ OutputData(file_list[idx + 1], ZipRead(src, file_list[idx + 1])).status = "ok"
    /\ read_log' = Append(read_log, idx + 1)
    /\ Raise("IOError: write", idx + 1)
    /\ UNCHANGED <<idx, dst, files_processed>>

\* lines 109-139, 147-148; writestr appends an entry, also under a name the
\* archive already holds
WriteEntry ==
    /\ InLoop
    /\ LoopFrame
    /\ Branch(file_list[idx + 1]) \notin {"skip", "unknown"}
    /\ LET file_name == file_list[idx + 1]
           output == OutputData(file_name, ZipRead(src, file_name))
       IN  /\ output.status = "ok"
           /\ dst' = Append(dst, [name |-> NewName(uuid_hex, file_name),
                                  data |-> output.bytes,
                                  source |-> idx + 1])
    /\ read_log' = Append(read_log, idx + 1)
    /\ files_processed' = files_processed + 1
    /\ idx' = idx + 1
    /\ UNCHANGED <<pc, error, failed_at, zip_in_open, zip_out_open>>

\* line 93 / 95: the path returned
OutputPath ==
    IF output_arg = "None" THEN uuid_hex \o Chars(".v2.pk")
    ELSE Chars("out.v2.pk")

\* lines 154-159: the loop is over, both archives are closed, the path returned
Finish ==
    /\ pc = "loop"
    /\ idx = Len(file_list)
    /\ zip_out_open' = FALSE
    /\ zip_in_open' = FALSE
    /\ result' = OutputPath
    /\ pc' = "done"
    /\ UNCHANGED <<input_exists, input_name_ok, src, output_arg, dest_file,
                   file_list, uuid_hex, idx, dst, files_processed, read_log,
                   error, failed_at, encVars, clsVars>>

Next ==
    \/ CheckExists
    \/ CheckName
    \/ OpenInput
    \/ CheckUuid
    \/ ReadUuid
    \/ CreateOutput
    \/ SkipMetadata
    \/ ReadFails
    \/ SkipUnknown
    \/ CipherFails
    \/ WriteFails
    \/ WriteEntry
    \/ Finish

Spec == Init /\ [][Next]_vars

\* convert_plain_to_v2 and encrypt_first_512_bytes, each from its own start
EncConvInit == Init \/ EncInit

EncConvNext == Next \/ EncNext

SpecEncConv == EncConvInit /\ [][EncConvNext]_vars

(***************************************************************************)
(* Properties.                                                             *)
(***************************************************************************)
UpperHexDigits == Chars("0123456789ABCDEF")

\* name begins with the 32 uppercase hex digits of the 16 bytes U, then "/"
HasUuidPrefix(name, U) ==
    /\ Len(U) = 16
    /\ Len(name) >= 33
    /\ name[33] = "/"
    /\ \A k \in 1..16 :
          /\ name[2 * k - 1] = UpperHexDigits[(U[k] \div 16) + 1]
          /\ name[2 * k] = UpperHexDigits[(U[k] % 16) + 1]

\* the branch that wrote the j-th destination entry
WrittenBranch(j) == Branch(file_list[dst[j].source])

\* C1: in every state of the write loop, every entry written to the
\* destination archive has a path that begins with the 32-character
\* uppercase hex rendering of the 16 bytes of uuid.bin followed by "/",
\* whichever branch (pass-through, .plain, rf, sf) wrote it.
C1_IdentifierPrefix ==
    \A j \in 1..Len(dst) :
        HasUuidPrefix(dst[j].name, ZipRead(src, Chars("uuid.bin")))

C1_Witness ==
    /\ pc = "done"
    /\ \E i, j \in 1..Len(dst) :
          WrittenBranch(i) = "plain" /\ WrittenBranch(j) \in {"rf", "sf"}

DroppedCount ==
    Cardinality({i \in 1..Len(src) :
        src[i].name \in {Chars("uuid.bin"), Chars("_metadata.json"),
                         Chars("_thumbnail.png")}})

UnknownCount ==
    Cardinality({i \in 1..Len(src) : Branch(src[i].name) = "unknown"})

\* C2: files_processed always equals the number of entries written, no
\* source entry is written twice, and after a successful conversion the
\* destination archive holds as many entries as the source archive minus
\* the dropped ones (uuid.bin, _metadata.json, _thumbnail.png) minus the
\* ones classified unknown.
C2_EntryCount ==
    /\ files_processed = Len(dst)
    /\ \A i, j \in 1..Len(dst) : i # j => dst[i].source # dst[j].source
    /\ pc = "done" => Len(dst) = Len(src) - DroppedCount - UnknownCount

C2_Witness ==
    /\ pc = "done"
    /\ Len(src) = 3 /\ UnknownCount = 1 /\ DroppedCount = 1 /\ Len(dst) = 1

HasUuidEntry == \E i \in 1..Len(src) : src[i].name = Chars("uuid.bin")

\* C3: a source archive without uuid.bin makes the conversion fail with a
\* ValueError; in that case and in the two up-front failures (input path
\* missing, name not ending in .plain.pk) the destination is never opened
\* and the file at the destination path is left as it was; the destination
\* is opened only once uuid.bin has been found and read.
C3_NoDestinationBeforeUuid ==
    /\ error \in {"FileNotFoundError", "ValueError: not a .plain.pk file",
                  "ValueError: no uuid.bin"}
          => /\ pc = "failed" /\ result = <<>>
             /\ dest_file # "new" /\ ~zip_out_open /\ dst = <<>>
    /\ (input_exists /\ input_name_ok /\ ~HasUuidEntry)
          => \/ pc \in {"start", "check_name", "open_in", "check_uuid"}
             \/ /\ pc = "failed"
                /\ error \in {"ValueError: no uuid.bin", "IOError: open input"}
    /\ (dest_file = "new" \/ zip_out_open)
          => /\ HasUuidEntry
             /\ uuid_hex # <<>>
             /\ input_exists /\ input_name_ok

C3_Witness ==
    /\ error = "ValueError: no uuid.bin"
    /\ dest_file = "old"
    /\ Len(src) > 0

\* C4: for a buffer of more than 512 bytes the call returns, the bytes of
\* the result from offset 512 on are those of the buffer from offset 512
\* on, and the cipher was handed exactly the first 512 bytes.
C4_TailUnchanged ==
    (enc_pc # "call" /\ Len(enc_data) > 512)
        => /\ enc_pc = "returned"
           /\ SubSeq(enc_result.bytes, 513, Len(enc_result.bytes))
                = SubSeq(enc_data, 513, Len(enc_data))
           /\ enc_result.cipher_calls = <<SubSeq(enc_data, 1, 512)>>

C4_Witness ==
    /\ enc_pc = "returned"
    /\ Len(enc_data) = 515
    /\ SubSeq(enc_result.bytes, 1, 512) # SubSeq(enc_data, 1, 512)

\* C5 as stated: every call, whatever the length of the buffer, returns a
\* result as long as the buffer; the empty buffer is returned unchanged and
\* the cipher is not invoked for it.
C5_LengthPreservedAlways ==
    /\ enc_pc # "call"
          => /\ enc_pc = "returned"
             /\ Len(enc_result.bytes) = Len(enc_data)
    /\ (enc_pc # "call" /\ Len(enc_data) = 0)
          => /\ enc_result.bytes = enc_data
             /\ enc_result.cipher_calls = <<>>

\* C5 amended: every call that returns gives a result as long as the buffer;
\* the call returns for the empty buffer (unchanged, cipher not invoked) and
\* for every buffer whose prefix of min(512, len) bytes is a multiple of 4
\* and at least 8 bytes long; for a non-empty buffer whose prefix length is
\* not a multiple of 4 the call raises and has no result.
C5_LengthPreserved ==
    /\ enc_pc = "returned" => Len(enc_result.bytes) = Len(enc_data)
    /\ (enc_pc # "call" /\ Len(enc_data) = 0)
          => /\ enc_pc = "returned"
             /\ enc_result.bytes = enc_data
             /\ enc_result.cipher_calls = <<>>
    /\ (/\ enc_pc # "call"
        /\ Min(512, Len(enc_data)) % 4 = 0
        /\ Min(512, Len(enc_data)) >= 8)
          => enc_pc = "returned"
    /\ (/\ enc_pc # "call"
        /\ Len(enc_data) > 0
        /\ Min(512, Len(enc_data)) % 4 # 0)
          => enc_pc = "raised"

C5_Witness ==
    /\ enc_pc = "returned"
    /\ Len(enc_data) = 12
    /\ enc_result.bytes # enc_data
    /\ Len(enc_result.cipher_calls) = 1

\* C6: after any prefix of the write loop, two source entries of different
\* names have not been written to the same destination path, unless the
\* conversion has failed.
C6_NoCollision ==
    \/ pc = "failed"
    \/ \A i, j \in 1..Len(dst) :
          file_list[dst[i].source] # file_list[dst[j].source]
              => dst[i].name # dst[j].name

\* the hex rendering of the identifier the classification alone is run with
ClsUuidHex == Chars("000123456789ABCDEFFEDCBA987654FF")

\* C7: a path ending in ".plain" that is neither a dropped metadata name nor
\* "ni"/"nm" is written under the identifier hex, "/", and the name with
\* only that trailing suffix removed.
C7_OnlyTrailingSuffix ==
    (/\ cls_pc = "classified"
     /\ Len(cls_name) >= 6
     /\ SubSeq(cls_name, Len(cls_name) - 5, Len(cls_name)) = Chars(".plain"))
        => cls_new_name
             = ClsUuidHex \o Chars("/") \o SubSeq(cls_name, 1, Len(cls_name) - 6)

\* C8: an exception raised while an entry is handled leaves the conversion
\* failed, with nothing returned and both archives closed; no entry after
\* the failing one has been read or written; and the loop goes past an
\* entry only by skipping a metadata file, skipping an unknown file or
\* writing the entry.
C8_AbortOnFailure ==
    /\ (error # "none") = (pc = "failed")
    /\ pc = "failed" => result = <<>> /\ ~zip_in_open /\ ~zip_out_open
    /\ failed_at > 0
          => /\ pc = "failed"
             /\ idx = failed_at - 1
             /\ \A k \in 1..Len(read_log) : read_log[k] <= failed_at
             /\ \A j \in 1..Len(dst) : dst[j].source < failed_at
    /\ \A i \in 1..idx :
          \/ Branch(file_list[i]) \in {"skip", "unknown"}
          \/ \E j \in 1..Len(dst) : dst[j].source = i

C8_Witness ==
    /\ pc = "failed"
    /\ error = "ValueError: cipher"
    /\ failed_at = 3
    /\ Branch(file_list[2]) = "unknown"
    /\ read_log = <<2, 3>>

\* name lies under the directory dir: dir and a separator start it, or dir
\* stands between two forward or two backward slashes inside it
Under(name, dir) ==
    \E sep \in {"/", "\\"} :
        \/ /\ Len(name) >= Len(dir) + 1
           /\ SubSeq(name, 1, Len(dir) + 1) = dir \o <<sep>>
        \/ \E i \in 1..Len(name) :
              /\ i + Len(dir) + 1 <= Len(name)
              /\ SubSeq(name, i, i + Len(dir) + 1) = <<sep>> \o dir \o <<sep>>

\* name with every backslash made a forward slash and a trailing ext removed
Normalized(name, ext) ==
    LET n == [i \in 1..Len(name) |-> IF name[i] = "\\" THEN "/" ELSE name[i]]
    IN  IF Len(n) >= Len(ext) /\ SubSeq(n, Len(n) - Len(ext) + 1, Len(n)) = ext
        THEN SubSeq(n, 1, Len(n) - Len(ext))
        ELSE n

Disposition(branch) ==
    CASE branch = "skip" -> "Drop"
      [] branch = "index" -> "PassThrough"
      [] branch \in {"plain", "rf", "sf"} -> "TransformAndRename"
      [] branch = "unknown" -> "Unknown"

Rule1(name) ==
    name \in {Chars("uuid.bin"), Chars("_metadata.json"), Chars("_thumbnail.png")}

Rule2(name) == name \in {Chars("ni"), Chars("nm")}

Rule3(name) ==
    Len(name) >= 6 /\ SubSeq(name, Len(name) - 5, Len(name)) = Chars(".plain")

\* the six rules in order, the first that matches deciding
C9_FirstMatch ==
    /\ cls_branch \in {"skip", "index", "plain", "rf", "sf", "unknown"}
    /\ (cls_branch = "skip") = Rule1(cls_name)
    /\ (cls_branch = "index") = (~Rule1(cls_name) /\ Rule2(cls_name))
    /\ (cls_branch = "plain")
          = (~Rule1(cls_name) /\ ~Rule2(cls_name) /\ Rule3(cls_name))
    /\ (cls_branch = "rf")
          = (/\ ~Rule1(cls_name) /\ ~Rule2(cls_name) /\ ~Rule3(cls_name)
             /\ Under(cls_name, Chars("rf")))
    /\ (cls_branch = "sf")
          = (/\ ~Rule1(cls_name) /\ ~Rule2(cls_name) /\ ~Rule3(cls_name)
             /\ ~Under(cls_name, Chars("rf")) /\ Under(cls_name, Chars("sf")))
    /\ (cls_branch = "unknown")
          = (/\ ~Rule1(cls_name) /\ ~Rule2(cls_name) /\ ~Rule3(cls_name)
             /\ ~Under(cls_name, Chars("rf")) /\ ~Under(cls_name, Chars("sf")))

\* C9: the six rules apply in order, first match winning, and every path
\* gets one disposition; every path under the rf or the sf subtree is
\* TransformAndRename and is written under the identifier hex, "/", and the
\* path with every backslash replaced by "/" and a trailing ".bmp" (rf) or
\* ".mp3" (sf) removed, a name without backslash; only a path matching none
\* of rules 1-5 is Unknown.
C9_SubtreePaths ==
    cls_pc = "classified"
        => /\ C9_FirstMatch
           /\ Under(cls_name, Chars("rf"))
                 => /\ Disposition(cls_branch) = "TransformAndRename"
                    /\ cls_new_name = ClsUuidHex \o Chars("/")
                                        \o Normalized(cls_name, Chars(".bmp"))
           /\ Under(cls_name, Chars("sf"))
                 => /\ Disposition(cls_branch) = "TransformAndRename"
                    /\ cls_new_name = ClsUuidHex \o Chars("/")
                                        \o Normalized(cls_name, Chars(".mp3"))

\* C9: the six rules apply in order, first match winning, and every path
\* gets one disposition; a path that the rf rule takes (it lies under the
\* rf subtree and does not end in ".plain") is TransformAndRename and is
\* written under the identifier hex, "/", and the path with every backslash
\* replaced by "/" and a trailing ".bmp" removed; a path that the sf rule
\* takes (under the sf subtree, not under the rf subtree, not ending in
\* ".plain") likewise with a trailing ".mp3" removed; neither written name
\* holds a backslash; only a path matching none of rules 1-5 is Unknown.
C9_SubtreePathsByRule ==
    cls_pc = "classified"
        => /\ C9_FirstMatch
           /\ (Under(cls_name, Chars("rf")) /\ ~Rule3(cls_name))
                 => /\ Disposition(cls_branch) = "TransformAndRename"
                    /\ cls_new_name = ClsUuidHex \o Chars("/")
                                        \o Normalized(cls_name, Chars(".bmp"))
           /\ (/\ Under(cls_name, Chars("sf")) /\ ~Under(cls_name, Chars("rf"))
               /\ ~Rule3(cls_name))
                 => /\ Disposition(cls_branch) = "TransformAndRename"
                    /\ cls_new_name = ClsUuidHex \o Chars("/")
                                        \o Normalized(cls_name, Chars(".mp3"))
           /\ cls_branch \in {"rf", "sf"}
                 => \A i \in 1..Len(cls_new_name) : cls_new_name[i] # "\\"

C9_Witness ==
    /\ cls_pc = "classified"
    /\ cls_name = Chars("story\\rf\\000\\A1B2C3D4.bmp")
    /\ cls_new_name = ClsUuidHex \o Chars("/story/rf/000/A1B2C3D4")

\* the prefix handed to the cipher is not a whole number of words
Unaligned(data) == Len(data) > 0 /\ Min(512, Len(data)) % 4 # 0

\* C10: for a non-empty buffer whose prefix length min(512, len) is not a
\* multiple of 4 the call raises and returns no bytes; a conversion never
\* writes, nor goes past, a .plain / rf / sf entry holding such a buffer:
\* it fails there (with the cipher's error unless reading the entry already
\* failed) and does not complete.
C10_UnalignedFails ==
    /\ (enc_pc # "call" /\ enc_pc # "idle" /\ Unaligned(enc_data))
          => /\ enc_pc = "raised"
             /\ enc_result.status = "ValueError"
             /\ enc_result.bytes = <<>>
    /\ \A i \in 1..Len(file_list) :
          (/\ Branch(file_list[i]) \in {"plain", "rf", "sf"}
           /\ Unaligned(ZipRead(src, file_list[i])))
              => /\ idx < i
                 /\ pc # "done"
                 /\ \A j \in 1..Len(dst) : dst[j].source # i
                 /\ failed_at = i
                       => error \in {"ValueError: cipher", "IOError: read"}
    /\ \A j \in 1..Len(dst) :
          Len(dst[j].data) = Len(ZipRead(src, file_list[dst[j].source]))

C10_Witness ==
    /\ pc = "failed"
    /\ error = "ValueError: cipher"
    /\ failed_at = 2
    /\ Len(file_list) = 3
    /\ Len(ZipRead(src, file_list[2])) = 6

====
